---- MODULE Spec2Model ----
(***************************************************************************)
(* Model of the arrested-bot posting queue (src/bot.ts).                   *)
(*                                                                         *)
(* One run of main() is a sequence of steps of a process p: the credential *)
(* check, loadDatabase, getNextClip, the four steps of postClip (login,    *)
(* media check, uploadBlob, post), markAsPosted and saveDatabase.  The     *)
(* persisted record (clips_database.json) is the variable disk; the posts  *)
(* the remote service accepted are counted per queue position in remote.   *)
(***************************************************************************)
EXTENDS Integers, Sequences, FiniteSets, TLC

\* ------------------------------------------------------------------ bounds
MaxClips == 2            \* longest record drawn by Init
MaxRuns == 3             \* runs of main() in one behaviour

\* --------------------------------------------------------------- constants
Procs == {1, 2}          \* invocations of the script that may exist
SeqProcs == {1}          \* the single scheduler slot of non-overlapping runs
Ids == 1..2                \* clip ids, numbered in their sort order
Filenames == {"banana.mp4", "missing.mp4"}
CLIPS_FOLDER == {"banana.mp4"}     \* the files present under ./clips
NoDate == 0              \* post_date null or absent
EarlierDate == 1         \* a post_date written before the behaviour starts

Clip == [id : Ids, filename : Filenames, posted : BOOLEAN,
         post_date : {NoDate, EarlierDate}]

RECURSIVE SeqsUpTo(_, _)
SeqsUpTo(S, n) ==
  IF n = 0 THEN {<<>>}
  ELSE LET shorter == SeqsUpTo(S, n - 1)
       IN  shorter \cup {Append(s, x) : s \in {t \in shorter : Len(t) = n - 1}, x \in S}

\* The persisted record: absent, unparseable, or a parsed list of clips.
Database == [state : {"ok"}, clips : SeqsUpTo(Clip, MaxClips)]
Absent == [state |-> "absent", clips |-> <<>>]
Corrupt == [state |-> "corrupt", clips |-> <<>>]

\* Records carrying fields the program does not declare: season on an item (as
\* in the "Add New Clips" example) and version at the document root.
DocClip ==
  {c \in [id : Ids, filename : CLIPS_FOLDER, posted : BOOLEAN,
          post_date : {NoDate, EarlierDate}, season : 1..2] :
     (c.post_date # NoDate) <=> c.posted}
Document == [state : {"ok"}, clips : SeqsUpTo(DocClip, MaxClips), version : 1..2]

VARIABLES disk,     \* contents of DATABASE_PATH
          clock,    \* what new Date() returns
          runs,     \* number of runs of main() started so far
          remote,   \* remote[i]: posts accepted by the service for queue position i
          run       \* run[p]: the state of invocation p

vars == <<disk, clock, runs, remote, run>>

IdleRun ==
  [pc |-> "idle", env |-> [username |-> TRUE, password |-> TRUE],
   db |-> <<>>, clip |-> 0, before |-> Absent, loaded |-> Absent, startTime |-> 0,
   reads |-> 0, writes |-> 0, logins |-> 0, uploads |-> 0, posts |-> 0,
   failure |-> "none", exit |-> "none"]

Init ==
  /\ disk \in Database \cup {Absent, Corrupt}
  /\ clock = EarlierDate
  /\ runs = 0
  /\ remote = [i \in 1..Len(disk.clips) |-> 0]
  /\ run = [p \in Procs |-> IdleRun]

\* --------------------------------------------------------- pure functions
\* Array.prototype.find: index of the first element from i on, 0 for undefined.
RECURSIVE FindUnposted(_, _)
FindUnposted(clips, i) ==
  IF i > Len(clips) THEN 0
  ELSE IF ~clips[i].posted THEN i
  ELSE FindUnposted(clips, i + 1)

RECURSIVE FindId(_, _, _)
FindId(clips, clipId, i) ==
  IF i > Len(clips) THEN 0
  ELSE IF clips[i].id = clipId THEN i
  ELSE FindId(clips, clipId, i + 1)

\* Variant: the unposted clip of smallest id (the queue sorted by id first).
getNextClip_byId(db) ==
  LET open == {i \in 1..Len(db) : ~db[i].posted}
  IN  IF open = {} THEN 0
      ELSE CHOOSE i \in open :
             \A j \in open : db[i].id < db[j].id \/ (db[i].id = db[j].id /\ i <= j)

getNextClip(db) == FindUnposted(db, 1)

\* Variant: sets the flag and leaves post_date alone.
markAsPosted_noDate(db, clipId, now) ==
  LET c == FindId(db, clipId, 1)
  IN  IF c # 0 THEN [db EXCEPT ![c] = [@ EXCEPT !.posted = TRUE]] ELSE db

\* Variant: flips the flag instead of setting it.
markAsPosted_toggle(db, clipId, now) ==
  LET c == FindId(db, clipId, 1)
  IN  IF c # 0
      THEN [db EXCEPT ![c] = [@ EXCEPT !.posted = ~@, !.post_date = now]]
      ELSE db

\* Variant: the comparison is inverted (c.id !== clipId).
markAsPosted_notEqual(db, clipId, now) ==
  LET others == {i \in 1..Len(db) : db[i].id # clipId}
      c == IF others = {} THEN 0 ELSE CHOOSE i \in others : \A j \in others : i <= j
  IN  IF c # 0
      THEN [db EXCEPT ![c] = [@ EXCEPT !.posted = TRUE, !.post_date = now]]
      ELSE db

markAsPosted(db, clipId, now) ==
  LET c == FindId(db, clipId, 1)
  IN  IF c # 0
      THEN [db EXCEPT ![c] = [@ EXCEPT !.posted = TRUE, !.post_date = now]]
      ELSE db

\* ------------------------------------------------------------------ steps
\* Variant: the error is reported and the process ends with status 0.
Exit_status0(p, code, why) ==
  run' = [run EXCEPT ![p] = [@ EXCEPT !.pc = "exited", !.exit = 0, !.failure = why]]

\* process.exit(code), from the catch block or from an explicit call.
Exit(p, code, why) ==
  run' = [run EXCEPT ![p] = [@ EXCEPT !.pc = "exited", !.exit = code, !.failure = why]]

Goto(p, label) == run' = [run EXCEPT ![p] = [@ EXCEPT !.pc = label]]

\* Variant: the check uses && and stops only when both credentials are missing.
StartRun_bothMissing(p) ==
  /\ run[p].pc \in {"idle", "exited"}
  /\ runs < MaxRuns
  /\ runs' = runs + 1
  /\ clock' = clock + 1
  /\ \E e \in [username : BOOLEAN, password : BOOLEAN] :
       LET fresh == [IdleRun EXCEPT !.env = e, !.before = disk, !.startTime = clock']
       IN  IF ~e.username /\ ~e.password
           THEN run' = [run EXCEPT ![p] =
                          [fresh EXCEPT !.pc = "exited", !.exit = 1, !.failure = "env"]]
           ELSE run' = [run EXCEPT ![p] = [fresh EXCEPT !.pc = "load"]]
  /\ UNCHANGED <<disk, remote>>

\* main(): entry and credential check.
StartRun(p) ==
  /\ run[p].pc \in {"idle", "exited"}
  /\ runs < MaxRuns
  /\ runs' = runs + 1
  /\ clock' = clock + 1
  /\ \E e \in [username : BOOLEAN, password : BOOLEAN] :
       LET fresh == [IdleRun EXCEPT !.env = e, !.before = disk, !.startTime = clock']
       IN  IF ~e.username \/ ~e.password
           THEN run' = [run EXCEPT ![p] =
                          [fresh EXCEPT !.pc = "exited", !.exit = 1, !.failure = "env"]]
           ELSE run' = [run EXCEPT ![p] = [fresh EXCEPT !.pc = "load"]]
  /\ UNCHANGED <<disk, remote>>

\* loadDatabase()
LoadDatabase(p) ==
  /\ run[p].pc = "load"
  /\ IF disk.state = "absent"
     THEN Exit(p, 1, "notfound")
     ELSE IF disk.state = "corrupt"
     THEN run' = [run EXCEPT ![p] = [@ EXCEPT !.pc = "exited", !.exit = 1,
                                       !.failure = "parse", !.reads = @ + 1]]
     ELSE run' = [run EXCEPT ![p] = [@ EXCEPT !.pc = "select", !.db = disk.clips,
                                       !.loaded = disk, !.reads = @ + 1]]
  /\ UNCHANGED <<disk, clock, runs, remote>>

\* Variant: an empty selection is reported as an error.
SelectClip_exit1(p) ==
  /\ run[p].pc = "select"
  /\ LET c == getNextClip(run[p].db)
     IN  IF c = 0
         THEN run' = [run EXCEPT ![p] = [@ EXCEPT !.pc = "exited", !.exit = 1]]
         ELSE run' = [run EXCEPT ![p] = [@ EXCEPT !.pc = "login", !.clip = c]]
  /\ UNCHANGED <<disk, clock, runs, remote>>

\* main(): getNextClip and the "All clips have been posted" return.
SelectClip(p) ==
  /\ run[p].pc = "select"
  /\ LET c == getNextClip(run[p].db)
     IN  IF c = 0
         THEN run' = [run EXCEPT ![p] = [@ EXCEPT !.pc = "exited", !.exit = 0]]
         ELSE run' = [run EXCEPT ![p] = [@ EXCEPT !.pc = "login", !.clip = c]]
  /\ UNCHANGED <<disk, clock, runs, remote>>

\* postClip(): agent.login
Login(p) ==
  /\ run[p].pc = "login"
  /\ \E ok \in BOOLEAN :
       run' = [run EXCEPT ![p] =
                 IF ok THEN [@ EXCEPT !.pc = "media", !.logins = @ + 1]
                 ELSE [@ EXCEPT !.pc = "exited", !.exit = 1, !.failure = "login",
                                !.logins = @ + 1]]
  /\ UNCHANGED <<disk, clock, runs, remote>>

\* Variant: the existence check comes after the upload call.
CheckMedia_afterUpload(p) ==
  /\ run[p].pc = "media"
  /\ IF run[p].db[run[p].clip].filename \in CLIPS_FOLDER
     THEN Goto(p, "upload")
     ELSE run' = [run EXCEPT ![p] = [@ EXCEPT !.pc = "exited", !.exit = 1,
                                       !.failure = "media", !.uploads = @ + 1]]
  /\ UNCHANGED <<disk, clock, runs, remote>>

\* postClip(): existsSync(videoPath)
CheckMedia(p) ==
  /\ run[p].pc = "media"
  /\ IF run[p].db[run[p].clip].filename \in CLIPS_FOLDER
     THEN Goto(p, "upload")
     ELSE Exit(p, 1, "media")
  /\ UNCHANGED <<disk, clock, runs, remote>>

\* Variant: a failed upload is tried again.
UploadBlob_retry(p) ==
  /\ run[p].pc = "upload"
  /\ \E ok \in BOOLEAN :
       run' = [run EXCEPT ![p] =
                 IF ok THEN [@ EXCEPT !.pc = "post", !.uploads = @ + 1]
                 ELSE IF @.uploads = 0 THEN [@ EXCEPT !.uploads = @ + 1]
                 ELSE [@ EXCEPT !.pc = "exited", !.exit = 1, !.failure = "upload",
                                !.uploads = @ + 1]]
  /\ UNCHANGED <<disk, clock, runs, remote>>

\* postClip(): agent.uploadBlob
UploadBlob(p) ==
  /\ run[p].pc = "upload"
  /\ \E ok \in BOOLEAN :
       run' = [run EXCEPT ![p] =
                 IF ok THEN [@ EXCEPT !.pc = "post", !.uploads = @ + 1]
                 ELSE [@ EXCEPT !.pc = "exited", !.exit = 1, !.failure = "upload",
                                !.uploads = @ + 1]]
  /\ UNCHANGED <<disk, clock, runs, remote>>

\* Variant: a rejected submission is swallowed and the run goes on to mark and save.
Post_swallow(p) ==
  /\ run[p].pc = "post"
  /\ \E ok \in BOOLEAN, d \in 0..1 :
       /\ clock' = clock + d
       /\ IF ok
          THEN /\ run' = [run EXCEPT ![p] = [@ EXCEPT !.pc = "mark", !.posts = @ + 1]]
               /\ remote' = [remote EXCEPT ![run[p].clip] = @ + 1]
          ELSE /\ run' = [run EXCEPT ![p] = [@ EXCEPT !.pc = "mark",
                                               !.failure = "post", !.posts = @ + 1]]
               /\ UNCHANGED remote
  /\ UNCHANGED <<disk, runs>>

\* postClip(): agent.post; the network round trips take d units of time.
Post(p) ==
  /\ run[p].pc = "post"
  /\ \E ok \in BOOLEAN, d \in 0..1 :
       /\ clock' = clock + d
       /\ IF ok
          THEN /\ run' = [run EXCEPT ![p] = [@ EXCEPT !.pc = "mark", !.posts = @ + 1]]
               /\ remote' = [remote EXCEPT ![run[p].clip] = @ + 1]
          ELSE /\ run' = [run EXCEPT ![p] = [@ EXCEPT !.pc = "exited", !.exit = 1,
                                               !.failure = "post", !.posts = @ + 1]]
               /\ UNCHANGED remote
  /\ UNCHANGED <<disk, runs>>

\* main(): markAsPosted(db, clip.id)
MarkAsPosted(p) ==
  /\ run[p].pc = "mark"
  /\ run' = [run EXCEPT ![p] =
               [@ EXCEPT !.pc = "save",
                         !.db = markAsPosted(@, run[p].db[run[p].clip].id, clock)]]
  /\ UNCHANGED <<disk, clock, runs, remote>>

\* Variant: the record is written, and written again before the run ends.
SaveDatabase_twice(p) ==
  /\ run[p].pc = "save"
  /\ disk' = [state |-> "ok", clips |-> run[p].db]
  /\ run' = [run EXCEPT ![p] =
               IF @.writes = 0 THEN [@ EXCEPT !.writes = @ + 1]
               ELSE [@ EXCEPT !.pc = "exited", !.exit = 0, !.writes = @ + 1]]
  /\ UNCHANGED <<clock, runs, remote>>

\* Variant: the write keeps items that the record on disk already has as posted.
SaveDatabase_merge(p) ==
  /\ run[p].pc = "save"
  /\ \/ /\ disk' = [run[p].loaded EXCEPT !.clips =
                      [j \in 1..Len(run[p].db) |->
                         IF j <= Len(disk.clips) /\ disk.clips[j].posted
                              /\ ~run[p].db[j].posted
                         THEN disk.clips[j] ELSE run[p].db[j]]]
        /\ run' = [run EXCEPT ![p] = [@ EXCEPT !.pc = "exited", !.exit = 0,
                                        !.writes = @ + 1]]
     \/ /\ disk' \in {disk, Corrupt}
        /\ run' = [run EXCEPT ![p] = [@ EXCEPT !.pc = "exited", !.exit = 1,
                                        !.failure = "save", !.writes = @ + 1]]
  /\ UNCHANGED <<clock, runs, remote>>

\* saveDatabase(db): db is the document object loadDatabase returned, with its
\* clips as mutated since.  writeFileSync either writes the whole document, or throws
\* leaving the file as it was (open failed) or truncated (write failed).
SaveDatabase(p) ==
  /\ run[p].pc = "save"
  /\ \/ /\ disk' = [run[p].loaded EXCEPT !.clips = run[p].db]
        /\ run' = [run EXCEPT ![p] = [@ EXCEPT !.pc = "exited", !.exit = 0,
                                        !.writes = @ + 1]]
     \/ /\ disk' \in {disk, Corrupt}
        /\ run' = [run EXCEPT ![p] = [@ EXCEPT !.pc = "exited", !.exit = 1,
                                        !.failure = "save", !.writes = @ + 1]]
  /\ UNCHANGED <<clock, runs, remote>>

Main(p) ==
  \/ StartRun(p)
  \/ LoadDatabase(p)
  \/ SelectClip(p)
  \/ Login(p)
  \/ CheckMedia(p)
  \/ UploadBlob(p)
  \/ Post(p)
  \/ MarkAsPosted(p)
  \/ SaveDatabase(p)

\* Non-overlapping runs: one invocation at a time, started again by the scheduler.
Next == \E p \in SeqProcs : Main(p)

Spec == Init /\ [][Next]_vars

\* The same program started on records with undeclared fields.
InitDoc ==
  /\ disk \in Document
  /\ clock = EarlierDate
  /\ runs = 0
  /\ remote = [i \in 1..Len(disk.clips) |-> 0]
  /\ run = [p \in Procs |-> IdleRun]

SpecDoc == InitDoc /\ [][Next]_vars

\* Overlapping runs: nothing in the program keeps a second invocation from
\* starting while another is between its load and its save.
OverlapClip ==
  {c \in [id : Ids, filename : CLIPS_FOLDER, posted : BOOLEAN,
          post_date : {NoDate, EarlierDate}] :
     (c.post_date # NoDate) <=> c.posted}

InitOverlap ==
  /\ disk \in [state : {"ok"}, clips : SeqsUpTo(OverlapClip, MaxClips)]
  /\ clock = EarlierDate
  /\ runs = 0
  /\ remote = [i \in 1..Len(disk.clips) |-> 0]
  /\ run = [p \in Procs |-> IdleRun]

\* The hazard needs no failing step: the overlapping runs are followed on the
\* path where the credentials are set and every call and write succeeds.
NextOverlap == \E p \in Procs : Main(p) /\ run'[p].failure = "none"

SpecOverlap == InitOverlap /\ [][NextOverlap]_vars

TypeOK ==
  /\ disk.state \in {"ok", "absent", "corrupt"}
  /\ runs \in 0..MaxRuns
  /\ \A p \in Procs : run[p].clip \in 0..Len(run[p].db)

\* ================================================================ claims
Exited(p) == run[p].pc = "exited"
AllPosted(clips) == \A i \in 1..Len(clips) : clips[i].posted
DateIffPosted(clips) ==
  \A i \in 1..Len(clips) : (clips[i].post_date # NoDate) <=> clips[i].posted
PublishFailures == {"login", "media", "upload", "post"}
\* Positions whose flag went from false to true between two versions of the record.
Flipped(old, new) ==
  {i \in 1..Len(old) : i <= Len(new) /\ ~old[i].posted /\ new[i].posted}
SavedOk(p) == Exited(p) /\ run[p].exit = 0 /\ run[p].writes = 1

\* C1: over non-overlapping runs with no manual edit, no clip's post submission
\* succeeds in two different runs, and no clip is posted while a clip before it
\* in the record is still unposted.
C1_PostedExactlyOnce ==
  /\ \A i \in DOMAIN remote : remote[i] <= 1
  /\ \A p \in Procs :
       run[p].pc \in {"mark", "save"} =>
         \A j \in 1..(run[p].clip - 1) : run[p].loaded.clips[j].posted

C3_PublishFailureLeavesRecord ==
  \A p \in Procs :
    (Exited(p) /\ run[p].failure \in PublishFailures) =>
       /\ disk = run[p].before
       /\ run[p].writes = 0

\* C3 witness: a run ended by a rejected post submission.
C3_Witness ==
  \E p \in Procs : Exited(p) /\ run[p].failure = "post" /\ run[p].exit = 1

\* C4: after every run that publishes and saves, exactly one item of the
\* persisted queue went from posted=false to posted=true and its post_date is
\* not earlier than the start of the run, for every loadable record.
C4_ExactlyOneFlip ==
  \A p \in Procs :
    SavedOk(p) =>
       LET f == Flipped(run[p].before.clips, disk.clips)
       IN  /\ Cardinality(f) = 1
           /\ \A i \in f : disk.clips[i].post_date >= run[p].startTime

\* C5 as stated: a run against a fully posted queue makes no login, upload or
\* post call, writes nothing, leaves the record unchanged and ends with status 0.
C5_NoOpOnFullyPosted ==
  \A p \in Procs :
    (Exited(p) /\ run[p].before.state = "ok" /\ AllPosted(run[p].before.clips)) =>
       /\ run[p].logins = 0 /\ run[p].uploads = 0 /\ run[p].posts = 0
       /\ run[p].writes = 0
       /\ disk = run[p].before
       /\ run[p].exit = 0

\* C5 amended: a run with both credentials set against a fully posted queue
\* makes no login, upload or post call, writes nothing, leaves the record
\* unchanged and ends with status 0.
C5_NoOpOnFullyPostedWithCredentials ==
  \A p \in Procs :
    (/\ Exited(p)
     /\ run[p].env.username /\ run[p].env.password
     /\ run[p].before.state = "ok" /\ AllPosted(run[p].before.clips)) =>
       /\ run[p].logins = 0 /\ run[p].uploads = 0 /\ run[p].posts = 0
       /\ run[p].writes = 0
       /\ disk = run[p].before
       /\ run[p].exit = 0

\* C5 witness: a run with credentials that loaded a non-empty, fully posted
\* queue and ended.
C5_Witness ==
  \E p \in Procs :
    /\ Exited(p) /\ run[p].reads = 1
    /\ run[p].env.username /\ run[p].env.password
    /\ run[p].before.state = "ok" /\ Len(run[p].before.clips) > 0
    /\ AllPosted(run[p].before.clips)

\* C6: when the selected item's media file is absent, the run makes no
\* uploadBlob call and no post call; the login is the only remote call.
C6_MediaNotFoundFailsFast ==
  \A p \in Procs :
    run[p].failure = "media" =>
       /\ run[p].uploads = 0 /\ run[p].posts = 0
       /\ run[p].logins = 1

\* C6 witness: a run ended by the missing media file.
C6_Witness ==
  \E p \in Procs :
    /\ Exited(p) /\ run[p].failure = "media"
    /\ run[p].db[run[p].clip].filename \notin CLIPS_FOLDER

\* C7 as stated: in every run the record is read exactly once and written at
\* most once, the write is the only mutation of durable state (the record
\* differs from the one the run found only if the run wrote it), and the write
\* happens only after the post submission of that run has succeeded.
C7_ReadOnceWriteAtMostOnce ==
  \A p \in Procs :
    /\ Exited(p) => run[p].reads = 1
    /\ run[p].reads <= 1 /\ run[p].writes <= 1
    /\ (run[p].pc # "idle" /\ disk # run[p].before) => run[p].writes = 1
    /\ run[p].writes > 0 => (run[p].posts = 1 /\ run[p].failure \in {"none", "save"})

\* C7 amended: in every run the record is read at most once, and exactly once
\* unless the run stops at the credential check or finds no record file; it is
\* written at most once, the write is the only mutation of durable state, and
\* the write happens only after the post submission of that run has succeeded.
C7_ReadAtMostOnceWriteAtMostOnce ==
  \A p \in Procs :
    /\ Exited(p) => (run[p].reads = 1 <=> run[p].failure \notin {"env", "notfound"})
    /\ run[p].reads <= 1 /\ run[p].writes <= 1
    /\ (run[p].pc # "idle" /\ disk # run[p].before) => run[p].writes = 1
    /\ run[p].writes > 0 => (run[p].posts = 1 /\ run[p].failure \in {"none", "save"})

\* C7 witness: a run that read the record once, had its submission accepted
\* and wrote the record once.
C7_Witness ==
  \E p \in Procs :
    /\ Exited(p) /\ run[p].reads = 1 /\ run[p].writes = 1 /\ run[p].posts = 1
    /\ disk # run[p].before

\* C8: if every item of the record loaded by a run has post_date set exactly
\* when posted is true, so has every item of the persisted record after the run.
C8_DateIffPostedPreserved ==
  \A p \in Procs :
    (Exited(p) /\ run[p].loaded.state = "ok" /\ DateIffPosted(run[p].loaded.clips)) =>
       DateIffPosted(disk.clips)

\* C8 witness: a run that loaded such a record and saved it with one more item
\* posted.
C8_Witness ==
  \E p \in Procs :
    /\ SavedOk(p)
    /\ DateIffPosted(run[p].loaded.clips)
    /\ Flipped(run[p].loaded.clips, disk.clips) # {}

\* C9: no run changes the post_date of an item that had posted true and a
\* post_date when the run loaded the record, for every loadable record.
C9_PostDateImmutable ==
  \A p \in Procs :
    (Exited(p) /\ run[p].loaded.state = "ok" /\ disk.state = "ok") =>
       \A i \in 1..Len(run[p].loaded.clips) :
          LET old == run[p].loaded.clips[i]
          IN  (old.posted /\ old.post_date # NoDate) =>
                 disk.clips[i].post_date = old.post_date

\* C10: over non-overlapping runs, whatever their outcomes, an item whose
\* posted flag is true in the persisted record does not have posted false in
\* the persisted record at any later time.
C10_PostedNeverReverts ==
  [][\A i \in 1..Len(disk.clips) :
       (disk.clips[i].posted /\ i <= Len(disk'.clips)) => disk'.clips[i].posted]_vars

\* C10 witness: a later run has saved the record while an item posted before
\* that run is in it.
C10_Witness ==
  \E p \in Procs :
    /\ SavedOk(p) /\ runs > 1
    /\ \E i \in 1..Len(run[p].before.clips) : run[p].before.clips[i].posted
    /\ disk # run[p].before

\* C11: clips are posted in ascending order of id: no item's submission is
\* accepted while an item with a smaller id is unposted in the record the run
\* loaded, whatever the positions of the items.
C11_PostedInIdOrder ==
  \A p \in Procs :
    run[p].pc \in {"mark", "save"} =>
       LET q == run[p].loaded.clips
       IN  \A j \in 1..Len(q) : ~q[j].posted => q[j].id >= q[run[p].clip].id

IdsOf(clips) == [i \in 1..Len(clips) |-> clips[i].id]

\* C12: a run never deletes, adds or reorders items: the sequence of item ids
\* in the persisted record after a run equals the sequence of item ids in the
\* record the run loaded.
C12_IdSequenceKept ==
  \A p \in Procs :
    (Exited(p) /\ run[p].loaded.state = "ok") =>
       IdsOf(disk.clips) = IdsOf(run[p].loaded.clips)

\* C13: a successful run changes only posted and post_date of the item it
\* published: every other item, every other field of the published item
\* (undeclared ones included) and every field at the document root are in the
\* saved record as they were in the loaded record.
C13_OnlyStatusOfPublishedItemChanges ==
  \A p \in Procs :
    SavedOk(p) =>
       LET old == run[p].loaded
           c == run[p].clip
       IN  /\ [disk EXCEPT !.clips = old.clips] = old
           /\ Len(disk.clips) = Len(old.clips)
           /\ \A i \in 1..Len(old.clips) :
                IF i = c
                THEN [disk.clips[i] EXCEPT !.posted = old.clips[i].posted,
                                           !.post_date = old.clips[i].post_date]
                       = old.clips[i]
                ELSE disk.clips[i] = old.clips[i]

\* C14: saveDatabase is atomic for a later load: after a write that failed, the
\* persisted record is the complete record from before the run.
C14_SaveAtomic ==
  \A p \in Procs :
    (Exited(p) /\ run[p].failure = "save") => disk = run[p].before

StepFailures == {"notfound", "parse", "login", "media", "upload", "post", "save"}
\* The two ways a run ends well: an item posted and saved, or nothing to post.
EndedWell(p) ==
  \/ run[p].posts = 1 /\ run[p].writes = 1 /\ run[p].clip # 0
  \/ run[p].clip = 0 /\ run[p].reads = 1 /\ AllPosted(run[p].loaded.clips)
       /\ run[p].logins = 0 /\ run[p].writes = 0

\* C15 as stated: a run reports failure if and only if one of its steps failed
\* (missing or unparseable record, login, media resolution, upload, submission
\* or save), and reports success when an item was posted and saved or when
\* there was nothing to post.
C15_FailureIffStepFailed ==
  \A p \in Procs :
    Exited(p) =>
       /\ run[p].exit \in {0, 1}
       /\ run[p].exit = 1 <=> run[p].failure \in StepFailures
       /\ run[p].exit = 0 <=> (run[p].failure = "none" /\ EndedWell(p))

\* C15 amended: a run reports failure if and only if a credential is missing or
\* one of its steps failed (missing or unparseable record, login, media
\* resolution, upload, submission or save), and reports success when an item
\* was posted and saved or when there was nothing to post.
C15_FailureIffCredentialOrStepFailed ==
  \A p \in Procs :
    Exited(p) =>
       /\ run[p].exit \in {0, 1}
       /\ run[p].exit = 1 <=> run[p].failure \in StepFailures \cup {"env"}
       /\ run[p].exit = 0 <=> (run[p].failure = "none" /\ EndedWell(p))

\* C15 witness: a run ended with status 1 by a missing media file.
C15_Witness ==
  \E p \in Procs : Exited(p) /\ run[p].exit = 1 /\ run[p].failure = "media"

\* C16: when the submission succeeds and saveDatabase fails, the run ends in
\* failure with the persisted record unchanged, and the item the next run
\* selects from it is the item just submitted.
C16_SaveFailureRepeatsItem ==
  \A p \in Procs :
    (Exited(p) /\ run[p].failure = "save") =>
       /\ run[p].exit = 1
       /\ run[p].posts = 1 /\ remote[run[p].clip] >= 1
       /\ disk = run[p].before
       /\ getNextClip(disk.clips) = run[p].clip

PublishSteps == {"login", "media", "upload", "post", "mark", "save"}

\* C17: within a run the publish steps happen in the order login, media check,
\* uploadBlob, post, each only after the one before succeeded; a run makes at
\* most one login, one uploadBlob and one post call, all for the one selected
\* item, and no step is entered twice.
C17_StrictPublishOrder ==
  /\ [](\A p \in Procs :
          /\ run[p].logins <= 1 /\ run[p].uploads <= 1 /\ run[p].posts <= 1
          /\ run[p].logins = 1 => run[p].clip # 0
          /\ run[p].uploads = 1 =>
               /\ run[p].logins = 1 /\ run[p].failure \notin {"login", "media"}
               /\ run[p].db[run[p].clip].filename \in CLIPS_FOLDER
          /\ run[p].posts = 1 => (run[p].uploads = 1 /\ run[p].failure # "upload")
          /\ run[p].pc = "login" => run[p].logins = 0
          /\ run[p].pc \in {"media", "upload"} =>
               (run[p].logins = 1 /\ run[p].uploads = 0 /\ run[p].posts = 0)
          /\ run[p].pc = "post" => (run[p].uploads = 1 /\ run[p].posts = 0))
  /\ [][/\ \A p \in Procs :
             (run[p].pc \in PublishSteps /\ run'[p].pc # "load") =>
                run'[p].clip = run[p].clip
        /\ remote' # remote =>
             \E p \in Procs : /\ run[p].pc = "post"
                              /\ remote' = [remote EXCEPT ![run[p].clip] = @ + 1]]_vars

\* C17 witness: a run whose login, upload and submission have all been made.
C17_Witness ==
  \E p \in Procs :
    run[p].pc = "mark" /\ run[p].logins = 1 /\ run[p].uploads = 1 /\ run[p].posts = 1

UniqueIds(clips) == \A i, j \in 1..Len(clips) : clips[i].id = clips[j].id => i = j

\* C18: with overlapping runs a save is built from the run's own, possibly
\* stale, load: every item other than the one the run marks is written as the
\* run loaded it, whatever the record holds by then.  (The witness is the lost
\* update this makes reachable.)
C18_SaveWritesStaleLoad ==
  [][\A p \in Procs :
       (run[p].pc = "save" /\ run'[p].pc = "exited" /\ run'[p].exit = 0) =>
          LET old == run[p].loaded.clips
              m == FindId(old, old[run[p].clip].id, 1)
          IN  /\ Len(disk'.clips) = Len(old)
              /\ \A j \in 1..Len(old) : j # m => disk'.clips[j] = old[j]]_vars

\* C18 witness: the lost update.  Run q published item i and persisted it as
\* posted; run p, which loaded before that, then saved: the record has item i
\* unposted again, and the item p published has been accepted twice.
C18_Witness ==
  \E p, q \in Procs :
    /\ p # q /\ SavedOk(p) /\ SavedOk(q)
    /\ UniqueIds(disk.clips)
    /\ disk.clips = run[p].db
    /\ \E i \in 1..Len(disk.clips) :
         /\ run[q].clip = i /\ run[q].db[i].posted
         /\ ~run[p].loaded.clips[i].posted
         /\ ~disk.clips[i].posted
    /\ remote[run[p].clip] >= 2

\* C19: when ids are unique across the queue, after a successful run the item
\* whose posted flag became true is at the queue position of the item that
\* getNextClip selected and postClip published.
C19_MarkedItemIsPublishedItem ==
  \A p \in Procs :
    (SavedOk(p) /\ UniqueIds(run[p].loaded.clips)) =>
       /\ Flipped(run[p].loaded.clips, disk.clips) = {run[p].clip}
       /\ remote[run[p].clip] >= 1

\* C19 witness: a successful run on a queue of distinct ids that published an
\* item which is not the first of the record.
C19_Witness ==
  \E p \in Procs :
    /\ SavedOk(p) /\ UniqueIds(run[p].loaded.clips)
    /\ run[p].clip > 1
    /\ disk.clips[run[p].clip].posted

NumPosted(clips) == Cardinality({i \in 1..Len(clips) : clips[i].posted})

\* C20: over non-overlapping runs whose publish and save succeed, each run on
\* a queue with an unposted item raises the number of posted items by exactly
\* one, and a run on a fully posted queue is a no-op that reports success.
C20_EachRunPostsOneMore ==
  \A p \in Procs :
    /\ SavedOk(p) => NumPosted(disk.clips) = NumPosted(run[p].before.clips) + 1
    /\ (Exited(p) /\ run[p].reads = 1 /\ run[p].loaded.state = "ok"
          /\ AllPosted(run[p].loaded.clips)) =>
         (run[p].exit = 0 /\ run[p].posts = 0 /\ disk = run[p].before)

\* C21: when either credential is missing the run fails before the record is
\* read: it makes no load, no login, upload or post call and no write, leaves
\* the record as it was and reports failure, also when every item of the queue
\* is already posted.
C21_MissingCredentialFailsFirst ==
  \A p \in Procs :
    (run[p].pc # "idle" /\ (~run[p].env.username \/ ~run[p].env.password)) =>
       /\ Exited(p) /\ run[p].exit = 1
       /\ run[p].reads = 0 /\ run[p].writes = 0
       /\ run[p].logins = 0 /\ run[p].uploads = 0 /\ run[p].posts = 0
       /\ run[p].clip = 0
       /\ disk = run[p].before

\* C21 witness: a run with one credential missing against a non-empty queue in
\* which every item is posted.
C21_Witness ==
  \E p \in Procs :
    /\ Exited(p)
    /\ run[p].env.username /\ ~run[p].env.password
    /\ run[p].before.state = "ok" /\ Len(run[p].before.clips) > 0
    /\ AllPosted(run[p].before.clips)
====
